---- MODULE Spec2Model ----
(***************************************************************************)
(* Model of the init_with crate (src/src/lib.rs).                          *)
(*                                                                         *)
(* Two layers are modelled:                                                *)
(*  - the compile-time expansion of array_init! and                        *)
(*    build_incrementing_list!, which emits one InitWith impl per array    *)
(*    length;                                                              *)
(*  - the run-time evaluation of the emitted bodies: an array expression   *)
(*    whose operands are generator calls, evaluated left to right, each    *)
(*    operand held in its slot until the array is moved to the caller, or  *)
(*    dropped by unwinding if a later operand panics.                      *)
(***************************************************************************)
EXTENDS Integers, Sequences, FiniteSets

\* length and identifier count of the top-level array_init! invocation
TopLen == 32
FirstIndexOne == 0 + 1

\* literal of the first index expression handed to build_incrementing_list!
FirstIndex == 0
\* the value returned by the constant generator of tests::expected
ConstVal == 4
\* how far past the array length a generator's failing invocation may lie
FailSlack == 1

NoFail == -1

VARIABLES
    queue,      \* pending array_init! invocation: <<>> or <<[n, idents]>>
    bil,        \* pending build_incrementing_list! invocation: <<>> or <<rec>>
    impls,      \* emitted impls, in emission order
    pc,         \* "idle", "running", "unwinding", "returned", "unwound"
    cur,        \* index into impls of the impl being executed (0: none)
    method,     \* "none", "init_with", "init_with_indices"
    gen,        \* the generator passed as `init`
    cap,        \* the generator's captured mutable state (cursor / counter)
    ip,         \* number of operands of the array expression evaluated so far
    slots,      \* operand values, by slot
    writes,     \* per slot: number of times a value was written into it
    drops,      \* per slot: number of times its value was dropped
    reads,      \* slots whose value has been read (moved out or dropped)
    invoked,    \* number of generator invocations started in this call
    rets,       \* values returned by the generator, in invocation order
    observed,   \* index arguments the index generator was invoked with
    result,     \* <<>> or <<array>>: the array returned to the caller
    prev        \* <<>> or <<outcome of the preceding init_with_indices call>>

vars == <<queue, bil, impls, pc, cur, method, gen, cap, ip, slots, writes,
          drops, reads, invoked, rets, observed, result, prev>>

expandVars == <<queue, bil, impls>>
callVars == <<pc, cur, method, gen, cap, ip, slots, writes, drops, reads,
              invoked, rets, observed, result, prev>>

----------------------------------------------------------------------------
\* Macro expansion

DecLenSame(n) == n

\* `($n - 1)`: the length expression of the recursive array_init! invocation
DecLen(n) == n - 1

NextIndexExprSame(n) == n

\* `$n+1`: the index expression of the recursive build_incrementing_list!
NextIndexExpr(n) == n + 1

BodyCallsStackOnly(idents) == idents - 1

\* number of `$x()` operands in `[$init(), $($stack()),+]`
BodyCalls(idents) == idents

ExpansionDone == queue = <<>> /\ bil = <<>>

\* array_init!{32, init, ..., init,}
TopInvocation == [n |-> TopLen, idents |-> TopLen]

\* arm 1: {$n:expr, $init:ident, $($stack:ident,)+}
ArrayInitMany ==
    /\ queue # <<>> /\ bil = <<>>
    /\ queue[1].idents >= 2
    /\ bil' = << [len |-> queue[1].n,
                  calls |-> BodyCalls(queue[1].idents),
                  result |-> <<>>,
                  n |-> FirstIndex,
                  stack |-> queue[1].idents] >>
    /\ queue' = << [n |-> DecLen(queue[1].n), idents |-> queue[1].idents - 1] >>
    /\ UNCHANGED impls
    /\ UNCHANGED callVars

\* arm 2: {$n:expr, $init:ident,}
ArrayInitOne ==
    /\ queue # <<>> /\ bil = <<>>
    /\ queue[1].idents = 1
    /\ impls' = Append(impls, [len |-> queue[1].n, calls |-> 1, idx |-> <<0>>])
    /\ queue' = << [n |-> DecLen(queue[1].n), idents |-> 0] >>
    /\ UNCHANGED bil
    /\ UNCHANGED callVars

ArrayInitZeroOneCall ==
    /\ queue # <<>> /\ bil = <<>>
    /\ queue[1].idents = 0
    /\ impls' = Append(impls, [len |-> queue[1].n, calls |-> 1, idx |-> <<0>>])
    /\ queue' = <<>>
    /\ UNCHANGED bil
    /\ UNCHANGED callVars

\* arm 3: {$n:expr}
ArrayInitZero ==
    /\ queue # <<>> /\ bil = <<>>
    /\ queue[1].idents = 0
    /\ impls' = Append(impls, [len |-> queue[1].n, calls |-> 0, idx |-> <<>>])
    /\ queue' = <<>>
    /\ UNCHANGED bil
    /\ UNCHANGED callVars

\* build_incrementing_list! arm 2: {[$($result:tt)*], $n:expr, $head:ident, $($stack:ident),+}
BilStep ==
    /\ bil # <<>>
    /\ bil[1].stack >= 2
    /\ bil' = << [bil[1] EXCEPT !.result = Append(@, bil[1].n),
                                !.n = NextIndexExpr(bil[1].n),
                                !.stack = @ - 1] >>
    /\ UNCHANGED <<queue, impls>>
    /\ UNCHANGED callVars

\* build_incrementing_list! arm 1: {[$($result:tt)*], $n:expr, $head:ident}
BilLast ==
    /\ bil # <<>>
    /\ bil[1].stack = 1
    /\ impls' = Append(impls, [len |-> bil[1].len,
                               calls |-> bil[1].calls,
                               idx |-> Append(bil[1].result, bil[1].n)])
    /\ bil' = <<>>
    /\ UNCHANGED queue
    /\ UNCHANGED callVars

Expand == ArrayInitMany \/ ArrayInitOne \/ ArrayInitZero \/ BilStep \/ BilLast

----------------------------------------------------------------------------
\* Generators (the caller-supplied `init` closures)

\* let src = vec![1, 2, 3]: element i (0-based) of the source sequence
SrcElem(i) == i + 1

SrcOfLen(L) == [i \in 1..L |-> SrcElem(i - 1)]

NoGen == [body |-> "none", wrapped |-> FALSE, src |-> <<>>, failAt |-> NoFail]

\* invocations on which a generator may be made to panic, for an array
\* expression of e operands (e itself: a generator that would panic on an
\* invocation that is never made)
FailPoints(e) == (0..(e - 1 + FailSlack)) \cup {NoFail}

\* F: FnMut() -> T
\*   "const":  || 4                                 (panicking on call failAt)
\*   "cursor": || { let val = src[idx]; idx += 1; val }
NullaryGens(e) ==
    {[body |-> "const", wrapped |-> FALSE, src |-> <<>>, failAt |-> f] :
        f \in FailPoints(e)}
    \cup
    {[body |-> "cursor", wrapped |-> FALSE, src |-> SrcOfLen(L), failAt |-> NoFail] :
        L \in 0..(e + FailSlack)}

\* F: FnMut(usize) -> T
\*   "ident":  |x| x        "square": |i| i*i        (panicking on index failAt)
UnaryGens(e) ==
    {[body |-> b, wrapped |-> FALSE, src |-> <<>>, failAt |-> f] :
        b \in {"ident", "square"}, f \in FailPoints(e)}

\* the zero-argument closure || { let v = g(counter); counter += 1; v }
Wrap(g) == [g EXCEPT !.wrapped = TRUE]

\* the index an index generator is applied to: the macro's index expression
\* when called by init_with_indices, the wrapper's counter when wrapped
IndexSeen(g, c, a) == IF g.wrapped THEN c ELSE a

IsIndexBody(g) == g.body \in {"ident", "square"}

\* whether the invocation panics, given captured state c and argument a
GenPanics(g, c, a) ==
    CASE g.body = "const"  -> c = g.failAt
      [] g.body = "cursor" -> c >= Len(g.src)
      [] OTHER             -> IndexSeen(g, c, a) = g.failAt

\* the value the invocation returns
GenValue(g, c, a) ==
    CASE g.body = "const"  -> ConstVal
      [] g.body = "cursor" -> g.src[c + 1]
      [] g.body = "ident"  -> IndexSeen(g, c, a)
      [] OTHER             -> IndexSeen(g, c, a) * IndexSeen(g, c, a)

\* the captured state after an invocation that returned
GenCapAfter(g, c) ==
    IF IsIndexBody(g) /\ ~g.wrapped THEN c ELSE c + 1

----------------------------------------------------------------------------
\* Evaluation of an emitted body

\* number of operands of the array expression in the body being executed
Operands(m, meth) ==
    IF meth = "init_with" THEN impls[m].calls ELSE Len(impls[m].idx)

\* the argument of operand i (0-based): `$head($n)` in init_with_indices;
\* `$init()` takes none (modelled as 0, which no nullary generator reads)
OperandArg(m, meth, i) ==
    IF meth = "init_with" THEN 0 ELSE impls[m].idx[i + 1]

SlotOfPrevious(i) == IF i > 0 THEN i - 1 ELSE i

\* the slot operand i of the array expression initialises
SlotOf(i) == i

AllEvaluatedEarly(i, e) == i >= e - 1

\* the array expression is complete once every operand has been evaluated
AllEvaluated(i, e) == i = e

LiveWholeArray == {i \in DOMAIN slots : drops[i] = 0}

\* the operand values written and not yet dropped
Live == {i \in DOMAIN slots : writes[i] > drops[i]}

\* unwinding drops the operand temporaries in reverse order of creation
NextToDrop == CHOOSE i \in Live : \A j \in Live : j <= i

ArrayOf(s, e) == [i \in 1..e |-> s[i - 1]]

Begin(m, meth, g) ==
    /\ pc' = "running"
    /\ cur' = m
    /\ method' = meth
    /\ gen' = g
    /\ cap' = 0
    /\ ip' = 0
    /\ slots' = [i \in 0..(Operands(m, meth) - 1) |-> 0]
    /\ writes' = [i \in 0..(Operands(m, meth) - 1) |-> 0]
    /\ drops' = [i \in 0..(Operands(m, meth) - 1) |-> 0]
    /\ reads' = {}
    /\ invoked' = 0
    /\ rets' = <<>>
    /\ observed' = <<>>
    /\ result' = <<>>

\* <[T; n]>::init_with(g)
CallInitWith ==
    /\ ExpansionDone /\ pc = "idle"
    /\ \E m \in 1..Len(impls) : \E g \in NullaryGens(impls[m].len) :
          Begin(m, "init_with", g)
    /\ prev' = <<>>
    /\ UNCHANGED expandVars

\* <[T; n]>::init_with_indices(g)
CallInitWithIndices ==
    /\ ExpansionDone /\ pc = "idle"
    /\ \E m \in 1..Len(impls) : \E g \in UnaryGens(impls[m].len) :
          Begin(m, "init_with_indices", g)
    /\ prev' = <<>>
    /\ UNCHANGED expandVars

\* operand ip is evaluated: the generator returns, its value fills the slot
InvokeReturns ==
    /\ pc = "running"
    /\ ~AllEvaluated(ip, Operands(cur, method))
    /\ LET a == OperandArg(cur, method, ip)
           v == GenValue(gen, cap, a)
       IN /\ ~GenPanics(gen, cap, a)
          /\ slots' = [slots EXCEPT ![SlotOf(ip)] = v]
          /\ writes' = [writes EXCEPT ![SlotOf(ip)] = @ + 1]
          /\ rets' = Append(rets, v)
          /\ observed' = IF IsIndexBody(gen)
                         THEN Append(observed, IndexSeen(gen, cap, a))
                         ELSE observed
          /\ cap' = GenCapAfter(gen, cap)
    /\ invoked' = invoked + 1
    /\ ip' = ip + 1
    /\ UNCHANGED <<pc, cur, method, gen, drops, reads, result, prev>>
    /\ UNCHANGED expandVars

InvokePanicsRetry ==
    /\ pc = "running"
    /\ ~AllEvaluated(ip, Operands(cur, method))
    /\ GenPanics(gen, cap, OperandArg(cur, method, ip))
    /\ invoked' = invoked + 1
    /\ UNCHANGED <<pc, cur, method, gen, cap, ip, slots, writes, drops, reads,
                   rets, observed, result, prev>>
    /\ UNCHANGED expandVars

\* operand ip is evaluated: the generator panics, unwinding begins
InvokePanics ==
    /\ pc = "running"
    /\ ~AllEvaluated(ip, Operands(cur, method))
    /\ LET a == OperandArg(cur, method, ip)
       IN /\ GenPanics(gen, cap, a)
          /\ observed' = IF IsIndexBody(gen)
                         THEN Append(observed, IndexSeen(gen, cap, a))
                         ELSE observed
    /\ invoked' = invoked + 1
    /\ pc' = "unwinding"
    /\ UNCHANGED <<cur, method, gen, cap, ip, slots, writes, drops, reads,
                   rets, result, prev>>
    /\ UNCHANGED expandVars

\* every operand evaluated: the array is moved to the caller
Return ==
    /\ pc = "running"
    /\ AllEvaluated(ip, Operands(cur, method))
    /\ result' = << ArrayOf(slots, Operands(cur, method)) >>
    /\ reads' = reads \cup DOMAIN slots
    /\ pc' = "returned"
    /\ UNCHANGED <<cur, method, gen, cap, ip, slots, writes, drops, invoked,
                   rets, observed, prev>>
    /\ UNCHANGED expandVars

\* unwinding drops one operand value that is still live
UnwindDrop ==
    /\ pc = "unwinding"
    /\ Live # {}
    /\ drops' = [drops EXCEPT ![NextToDrop] = @ + 1]
    /\ reads' = reads \cup {NextToDrop}
    /\ UNCHANGED <<pc, cur, method, gen, cap, ip, slots, writes, invoked,
                   rets, observed, result, prev>>
    /\ UNCHANGED expandVars

PropagateWithoutDrop ==
    /\ pc = "unwinding"
    /\ pc' = "unwound"
    /\ UNCHANGED <<cur, method, gen, cap, ip, slots, writes, drops, reads,
                   invoked, rets, observed, result, prev>>
    /\ UNCHANGED expandVars

\* nothing left to drop: the panic reaches the caller
Propagate ==
    /\ pc = "unwinding"
    /\ Live = {}
    /\ pc' = "unwound"
    /\ UNCHANGED <<cur, method, gen, cap, ip, slots, writes, drops, reads,
                   invoked, rets, observed, result, prev>>
    /\ UNCHANGED expandVars

Outcome == [pc |-> pc, result |-> result, observed |-> observed,
            invoked |-> invoked, returned |-> Len(rets)]

\* after <[T; n]>::init_with_indices(g) has ended, the caller calls
\* <[T; n]>::init_with with the counter closure around the same g
CallInitWithWrapped ==
    /\ pc \in {"returned", "unwound"}
    /\ method = "init_with_indices"
    /\ prev' = << Outcome >>
    /\ Begin(cur, "init_with", Wrap(gen))
    /\ UNCHANGED expandVars

\* the caller is done with the call's outcome
Finish ==
    /\ pc \in {"returned", "unwound"}
    /\ pc' = "idle"
    /\ cur' = 0
    /\ method' = "none"
    /\ gen' = NoGen
    /\ cap' = 0
    /\ ip' = 0
    /\ slots' = <<>>
    /\ writes' = <<>>
    /\ drops' = <<>>
    /\ reads' = {}
    /\ invoked' = 0
    /\ rets' = <<>>
    /\ observed' = <<>>
    /\ result' = <<>>
    /\ prev' = <<>>
    /\ UNCHANGED expandVars

----------------------------------------------------------------------------
Init ==
    /\ queue = << TopInvocation >>
    /\ bil = <<>>
    /\ impls = <<>>
    /\ pc = "idle"
    /\ cur = 0
    /\ method = "none"
    /\ gen = NoGen
    /\ cap = 0
    /\ ip = 0
    /\ slots = <<>>
    /\ writes = <<>>
    /\ drops = <<>>
    /\ reads = {}
    /\ invoked = 0
    /\ rets = <<>>
    /\ observed = <<>>
    /\ result = <<>>
    /\ prev = <<>>

Next ==
    \/ ArrayInitMany
    \/ ArrayInitOne
    \/ ArrayInitZero
    \/ BilStep
    \/ BilLast
    \/ CallInitWith
    \/ CallInitWithIndices
    \/ CallInitWithWrapped
    \/ InvokeReturns
    \/ InvokePanics
    \/ Return
    \/ UnwindDrop
    \/ Propagate
    \/ Finish

Spec == Init /\ [][Next]_vars

\* the expansion alone; the macro expander runs every pending invocation
SpecExpand == Init /\ [][Expand]_vars /\ WF_vars(Expand)

----------------------------------------------------------------------------
\* Properties

InCall == pc # "idle"
CurLen == impls[cur].len
Produced == Len(rets)
Panicked == pc \in {"unwinding", "unwound"}
Written == {i \in DOMAIN slots : writes[i] >= 1}

\* C1: a completed init_with returns an array of the type's length N whose
\* slot i holds the value returned by the i-th generator invocation; a
\* generator reading a source sequence in order reproduces that sequence.
InitWithFillsSlotsInCallOrder ==
    (pc = "returned" /\ method = "init_with") =>
        /\ Len(result) = 1
        /\ Len(result[1]) = CurLen
        /\ Len(rets) = CurLen
        /\ \A i \in 1..CurLen : result[1][i] = rets[i]
        /\ (gen.body = "cursor" => result[1] = SubSeq(gen.src, 1, CurLen))

InitWithCursorReproducesSource ==
    /\ pc = "returned" /\ method = "init_with"
    /\ gen.body = "cursor"
    /\ CurLen = TopLen
    /\ Len(gen.src) = CurLen
    /\ result[1] = gen.src

\* C2: a completed call of init_with or init_with_indices has invoked the
\* generator exactly N times.
CompletedCallInvokesExactlyN ==
    pc = "returned" => invoked = CurLen

CompletedIndexedCallOfTopLen ==
    /\ pc = "returned" /\ method = "init_with_indices"
    /\ CurLen = TopLen
    /\ invoked = TopLen

\* C3: init_with_indices passes index i to the i-th invocation, so the
\* indices the generator observes are 0, 1, ... in increasing order without
\* gap or repeat (all of 0..N-1 once the call completes), and slot i of the
\* result holds the value the generator returned for index i.
IndicesObservedInOrder ==
    (InCall /\ method = "init_with_indices") =>
        /\ Len(observed) = invoked
        /\ \A i \in 1..Len(observed) : observed[i] = i - 1
        /\ (pc = "returned" =>
              /\ Len(observed) = CurLen
              /\ Len(result[1]) = CurLen
              /\ \A i \in 1..CurLen :
                    /\ result[1][i] = rets[i]
                    /\ result[1][i] = GenValue(gen, 0, observed[i]))

IndexedSquaresOfTopLen ==
    /\ pc = "returned" /\ method = "init_with_indices"
    /\ gen.body = "square"
    /\ CurLen = TopLen
    /\ result[1][TopLen] = (TopLen - 1) * (TopLen - 1)

\* C4: when an invocation of the generator does not return (it panics on
\* invocation k), the call is unwinding or has unwound, no array is returned,
\* and the failing invocation is the last one: k + 1 invocations in total.
PanicAbortsCallWithoutRetry ==
    (InCall /\ invoked # Produced) =>
        /\ Panicked
        /\ result = <<>>
        /\ invoked = Produced + 1
        /\ Produced < CurLen
        /\ (gen.body = "cursor" => Produced = Len(gen.src))
        /\ (gen.body # "cursor" => Produced = gen.failAt)

PanicOnLaterInvocationPropagated ==
    /\ pc = "unwound"
    /\ Produced >= 2
    /\ invoked = Produced + 1
    /\ result = <<>>

EmptyArrayNeverInvokes ==
    (InCall /\ CurLen = 0) =>
        /\ invoked = 0
        /\ ~Panicked
        /\ (pc = "returned" => result = << <<>> >>)

EmptyArrayWithFailingGenerator ==
    /\ pc = "returned"
    /\ CurLen = 0
    /\ method = "init_with_indices"
    /\ gen.failAt = 0
    /\ GenPanics(gen, 0, 0)
    /\ result = << <<>> >>

\* C7: init_with_indices(g) and init_with of the counter closure around g
\* end the same way: same array or same abort, same index arguments seen by
\* g, same number of invocations.
IndexedEqualsCounterComposition ==
    (pc \in {"returned", "unwound"} /\ prev # <<>>) => prev[1] = Outcome

CounterCompositionAborted ==
    /\ pc = "unwound"
    /\ prev # <<>>
    /\ prev[1].pc = "unwound"
    /\ Len(observed) >= 3

\* C8: no value is dropped more than once, no slot that was never written
\* is dropped, and the array handed to the caller has every slot written
\* and none dropped; an aborted call hands nothing to the caller.
NoDoubleDropNoUninitExposed ==
    InCall =>
        /\ \A i \in DOMAIN slots : drops[i] <= 1 /\ drops[i] <= writes[i]
        /\ (result # <<>> =>
              /\ pc = "returned"
              /\ \A i \in DOMAIN slots : writes[i] = 1 /\ drops[i] = 0)
        /\ (Panicked => result = <<>>)

AbortWithUnwrittenSlots ==
    /\ pc = "unwound"
    /\ \E i \in DOMAIN slots : drops[i] = 1
    /\ \E i \in DOMAIN slots : writes[i] = 0

ExpansionInv ==
    /\ (queue # <<>> => queue[1].n = queue[1].idents)
    /\ (bil # <<>> =>
          /\ bil[1].n = Len(bil[1].result)
          /\ bil[1].len = bil[1].calls
          /\ Len(bil[1].result) + bil[1].stack = bil[1].len)
    /\ \A j \in 1..Len(impls) :
          /\ impls[j].len = TopLen - j + 1
          /\ impls[j].calls = impls[j].len
          /\ Len(impls[j].idx) = impls[j].len
          /\ \A i \in 1..Len(impls[j].idx) : impls[j].idx[i] = i - 1
    /\ (ExpansionDone => Len(impls) = TopLen + 1)

\* C10: the expansion started with length 32 and 32 identifiers terminates
\* having emitted exactly one impl per length 32, 31, ..., 0; at every step
\* the length expression equals the number of identifiers remaining, the
\* body for length n has n generator calls, and build_incrementing_list!
\* keeps its index expression equal to the number of calls accumulated.
ExpansionEmitsEveryLength == []ExpansionInv /\ <>ExpansionDone

AllLengthsEmitted ==
    /\ ExpansionDone
    /\ Len(impls) = TopLen + 1
    /\ impls[1].len = TopLen
    /\ impls[TopLen + 1].len = 0

====
